---- MODULE Spec2Model ----
(***************************************************************************)
(* State-machine model of the schedulesurf frontend:                       *)
(*   - the call-status synchronizer, in its two implementations: the       *)
(*     useCallStatus hook and the polling effect of the CallStatus         *)
(*     component (specification Spec);                                     *)
(*   - the ScheduleMeeting form together with App.handlePlaceCall and      *)
(*     App.fetchFreeSlots (specification SpecForm).                        *)
(* Further specifications drive one part with a wider input domain:        *)
(* SpecSlots (the slot picker with more than 5 slots on offer), SpecPhone  *)
(* (the phone rule), SpecTranscript and SpecEvents (the normalization of   *)
(* a push payload), SpecStage (the stage display of CallStatus).           *)
(* Every async function is cut at its awaits: the part before the await    *)
(* is one action, the continuation after the promise settles is another.   *)
(***************************************************************************)
EXTENDS Integers, Sequences, FiniteSets, TLC

(* ------------------------------ bounds --------------------------------- *)
MaxCallId == 2
MaxEffects == 2
MaxRequests == 2
MaxRefreshCount == 1
MaxPhoneLen == 2
MaxSlots == 2
MaxPickSlots == 6
MaxSampleLen == 3
MaxTranscriptLen == 2

(* --------------------------- value domains ----------------------------- *)
NoCall == 0
CallIds == 1..MaxCallId
Absent == "absent"
Undefined == "undefined"
NoError == "null"
Statuses == {"initiated", "queued", "in_progress", "completed", "error"}
PayloadStatuses == {"in_progress", "completed", "error", "ringing"}
EmptySnapshot == [status |-> Absent, callData |-> Absent, duration_seconds |-> Absent]
InitialDatas == {EmptySnapshot, [status |-> "initiated", callData |-> "cd", duration_seconds |-> Absent]}
PollDatas == [status : PayloadStatuses, callData : {Absent, "cd"}, duration_seconds : {Absent}]
Now == "now"
NoTranscript == [type |-> "undefined", json |-> "none", entries |-> <<>>, lines |-> <<>>]
McpDatas ==
  [status : PayloadStatuses, duration : {Undefined, "42"}, call_id : {Undefined}, credits : {Undefined},
   transcript : {NoTranscript}, created_at : {Undefined}, queue_time : {Undefined},
   start_time : {Undefined}, end_time : {Undefined}, error : {Undefined}]
NullData == [null |-> TRUE]
NullEntry == [value |-> "null", role |-> Undefined, speaker |-> Undefined, text |-> Undefined, content |-> Undefined]
Entries ==
  {[value |-> "object", role |-> "agent", speaker |-> Undefined, text |-> "Hello", content |-> Undefined],
   [value |-> "object", role |-> "user", speaker |-> Undefined, text |-> "Hi there", content |-> Undefined],
   [value |-> "object", role |-> Undefined, speaker |-> "agent", text |-> Undefined, content |-> "Hello"],
   [value |-> "object", role |-> Undefined, speaker |-> Undefined, text |-> Undefined, content |-> Undefined],
   NullEntry}
Lines ==
  {<<"Agent:", " ", "Hello">>, <<"User:", " ", "Hi there">>, <<"AI:", "Hello">>, <<"agent:", "Hello", " ">>,
   <<"Hello">>, <<"User:", " ", "agent:", "Hello">>, <<>>}
EntrySeqs == UNION {[1..n -> Entries] : n \in 0..MaxTranscriptLen}
LineSeqs == UNION {[1..n -> Lines] : n \in 1..MaxTranscriptLen}
Transcripts ==
  {NoTranscript, [type |-> "string", json |-> "invalid", entries |-> <<>>, lines |-> <<>>],
   [type |-> "string", json |-> "other", entries |-> <<>>, lines |-> <<>>]}
  \cup {[type |-> "array", json |-> "none", entries |-> es, lines |-> <<>>] : es \in EntrySeqs}
  \cup {[type |-> "string", json |-> "array", entries |-> es, lines |-> <<>>] : es \in EntrySeqs}
  \cup {[type |-> "string", json |-> "invalid", entries |-> <<>>, lines |-> ls] : ls \in LineSeqs}
TranscriptPayloads ==
  [status : {"in_progress"}, duration : {Undefined}, call_id : {"c1"}, credits : {Undefined},
   transcript : Transcripts, created_at : {Undefined}, queue_time : {Undefined},
   start_time : {Undefined}, end_time : {Undefined}, error : {Undefined}]
EventPayloads ==
  [status : {Undefined, "queued", "in_progress", "completed", "error", "ringing"},
   duration : {Undefined, "42"}, call_id : {"c1"}, credits : {Undefined, "3"},
   transcript : {NoTranscript}, created_at : {Undefined, "t_created"}, queue_time : {Undefined, "t_queue"},
   start_time : {Undefined, "t_start"}, end_time : {Undefined, "t_end"}, error : {Undefined, "busy"}]
Hosts == {[present |-> FALSE, reg |-> FALSE, unreg |-> FALSE]} \cup [present : {TRUE}, reg : BOOLEAN, unreg : BOOLEAN]
Digits == {"0", "1", "2", "3", "4", "5", "6", "7", "8", "9"}
PhoneAlphabet == {"+", "1"}
PhoneInputs == UNION {[1..n -> PhoneAlphabet] : n \in 0..MaxPhoneLen}
SampleChars == {"+", "0", "1", "a"}
LongDigits(n) == [i \in 1..n |-> "1"]
PhoneSamples ==
  UNION {[1..n -> SampleChars] : n \in 0..MaxSampleLen}
  \cup {<<"+", "1", "1", "2", "3", "4", "5", "6", "7", "8", "9", "0">>, <<"1", "2", "3">>, <<"a", "b", "c">>, <<"+", "0", "1", "2", "3">>}
  \cup {LongDigits(15), LongDigits(16), <<"+">> \o LongDigits(15), <<"+">> \o LongDigits(16)}
NameInputs == {"", " ", "Jane"}
OccasionInputs == {"Coffee", "Lunch"}
DurationInputs == {"30 minutes", "1 hour"}
AllSlots == {[start |-> "T" \o ToString(i), end |-> "T" \o ToString(i + 1)] : i \in 1..MaxSlots}
PickSlots == {[start |-> "T" \o ToString(i), end |-> "T" \o ToString(i + 1)] : i \in 1..MaxPickSlots}
PlaceResponses == [call_id : {1}, status : {"initiated"}]
NoErrors == [k \in {} |-> ""]
NoActiveCall == [call_id |-> NoCall]
StageStatuses == {Absent, "initiated", "queued", "in_progress", "completed", "error", "ringing", "constructor"}
StagePollDatas == [status : StageStatuses, callData : {Absent}, duration_seconds : {Absent}]
InitialStep == [n |-> 0, boxed |-> FALSE]
NoCleanup == [kind |-> "none", cid |-> NoCall, gen |-> 0]

VARIABLES
  impl,          \* which synchronizer is mounted: "hook" (useCallStatus) or "component" (CallStatus)
  blandmcp,      \* the host's window.blandmcp object: present? registerCallListener? unregisterCallListener?
  mounted,       \* the synchronizer instance is mounted
  callId,        \* the callId prop of the current render
  gen,           \* number of effect runs so far; identifies an effect closure and its intervalId
  instGen,       \* first effect run of the current instance
  callData,      \* useState callData: the snapshot
  loading,       \* useState loading
  error,         \* useState error
  usingMcp,      \* useState usingMcp (hook)
  refreshCount,  \* useState refreshCount (component)
  activeStep,    \* useState activeStep (component): a number, possibly boxed in a Number object
  intervals,     \* active setInterval timers, by the effect run that created them
  listeners,     \* the host's call-listener registry
  cleanup,       \* the cleanup function returned by the last effect run
  inflight,      \* requests issued whose promise has not settled
  issued,        \* number of requests issued so far
  termGens,      \* history: effect runs whose fetch continuation processed a terminal status
  pushTermGens,  \* history: effect runs whose push handler applied a terminal status
  refreshOutcome,\* history: how the promise of the last settled refresh() ended
  writer         \* history: the kind of request whose response last wrote callData

syncVars == <<impl, blandmcp, mounted, callId, gen, instGen, callData, loading, error, usingMcp, refreshCount, activeStep, intervals, listeners, cleanup, inflight, issued, termGens, pushTermGens, refreshOutcome, writer>>

VARIABLES
  phoneNumber,   \* ScheduleMeeting useState phoneNumber, a sequence of characters
  inviteeName,   \* useState inviteeName
  occasion,      \* useState occasion
  duration,      \* useState duration
  selectedSlots, \* useState selectedSlots, a sequence of formatted slots
  errors,        \* useState errors: a function from the failing field names to messages
  submitting,    \* useState submitting
  success,       \* useState success
  successTimer,  \* the setTimeout of the success effect is pending
  appLoading,    \* App useState loading
  appError,      \* App useState error
  freeSlots,     \* App useState freeSlots
  activeCall,    \* App useState activeCall
  placeInflight, \* placeCall requests (their CallRequest bodies) not yet settled
  slotsInflight  \* number of getFreeSlots requests not yet settled

formVars == <<phoneNumber, inviteeName, occasion, duration, selectedSlots, errors, submitting, success, successTimer, appLoading, appError, freeSlots, activeCall, placeInflight, slotsInflight>>

vars == <<syncVars, formVars>>

(* ------------------------------ helpers -------------------------------- *)
IsTerminal(status) == status = "completed" \/ status = "error"

\* checkMcpAvailability(): window.blandmcp !== undefined
checkMcpAvailability == blandmcp.present

\* a || b on values that are either undefined or truthy
Or(a, b) == IF a # Undefined THEN a ELSE b

\* the characters of a line: its tokens joined
RECURSIVE Join(_)
Join(tokens) == IF tokens = <<>> THEN "" ELSE Head(tokens) \o Join(Tail(tokens))

\* String.prototype.trim on a line held as tokens: the blanks at both ends go
RECURSIVE Trim(_)
Trim(tokens) ==
  IF tokens = <<>> THEN <<>>
  ELSE IF Head(tokens) = " " THEN Trim(Tail(tokens))
  ELSE IF tokens[Len(tokens)] = " " THEN Trim(SubSeq(tokens, 1, Len(tokens) - 1))
  ELSE tokens

\* line.toLowerCase().includes('agent:') || line.toLowerCase().includes('ai:')
isAgent(line) == \E i \in 1..Len(line) : line[i] \in {"Agent:", "agent:", "AI:"}

\* line.replace(/^(Agent:|User:|AI:)/i, '').trim()
lineText(line) ==
  Join(Trim(IF line # <<>> /\ Head(line) \in {"Agent:", "agent:", "AI:", "User:"} THEN Tail(line) ELSE line))

\* formatTranscript(transcript); a TypeError on a null entry is caught and gives []
formatTranscript(transcript) ==
  IF transcript.type # "string" \/ (transcript.json = "invalid" /\ transcript.lines = <<>>)
  THEN <<>>
  ELSE IF transcript.json = "invalid"
  THEN [i \in 1..Len(transcript.lines) |->
          [role |-> IF isAgent(transcript.lines[i]) THEN "agent" ELSE "user",
           text |-> lineText(transcript.lines[i])]]
  ELSE IF transcript.json = "array"
  THEN IF \E i \in 1..Len(transcript.entries) : transcript.entries[i] = NullEntry
       THEN <<>>
       ELSE [i \in 1..Len(transcript.entries) |->
               [role |-> Or(transcript.entries[i].role, Or(transcript.entries[i].speaker, "unknown")),
                text |-> Or(transcript.entries[i].text, Or(transcript.entries[i].content, ""))]]
  ELSE <<>>

\* generateEventsFromMcp that stamps every entry with the current time
generateEventsFromMcp_AlwaysNow(mcpData) ==
  (IF mcpData.created_at # Undefined
   THEN <<[status |-> "Call initiated", time |-> Now, details |-> "Request sent to Bland AI"]>>
   ELSE <<>>)
  \o (IF mcpData.status = "queued" \/ mcpData.queue_time # Undefined
      THEN <<[status |-> "Call queued", time |-> Now, details |-> "Call is waiting in queue"]>>
      ELSE <<>>)
  \o (IF mcpData.status = "in_progress" \/ mcpData.start_time # Undefined
      THEN <<[status |-> "Call in progress", time |-> Now, details |-> "Conversation has started"]>>
      ELSE <<>>)
  \o (IF mcpData.status = "completed" \/ mcpData.end_time # Undefined
      THEN <<[status |-> "Call completed", time |-> Now,
              details |-> "Call finished after " \o Or(mcpData.duration, "0") \o " seconds"]>>
      ELSE <<>>)
  \o (IF mcpData.status = "error"
      THEN <<[status |-> "Call error", time |-> Now,
              details |-> Or(mcpData.error, "An error occurred during the call")]>>
      ELSE <<>>)

\* generateEventsFromMcp(mcpData)
generateEventsFromMcp(mcpData) ==
  (IF mcpData.created_at # Undefined
   THEN <<[status |-> "Call initiated", time |-> mcpData.created_at, details |-> "Request sent to Bland AI"]>>
   ELSE <<>>)
  \o (IF mcpData.status = "queued" \/ mcpData.queue_time # Undefined
      THEN <<[status |-> "Call queued", time |-> Or(mcpData.queue_time, Now), details |-> "Call is waiting in queue"]>>
      ELSE <<>>)
  \o (IF mcpData.status = "in_progress" \/ mcpData.start_time # Undefined
      THEN <<[status |-> "Call in progress", time |-> Or(mcpData.start_time, Now), details |-> "Conversation has started"]>>
      ELSE <<>>)
  \o (IF mcpData.status = "completed" \/ mcpData.end_time # Undefined
      THEN <<[status |-> "Call completed", time |-> Or(mcpData.end_time, Now),
              details |-> "Call finished after " \o Or(mcpData.duration, "0") \o " seconds"]>>
      ELSE <<>>)
  \o (IF mcpData.status = "error"
      THEN <<[status |-> "Call error", time |-> Now,
              details |-> Or(mcpData.error, "An error occurred during the call")]>>
      ELSE <<>>)

\* formatMcpCallData(mcpData): the normalized record (null for a falsy payload)
formatMcpCallData(mcpData) ==
  IF "null" \in DOMAIN mcpData THEN NullData
  ELSE [status |-> mcpData.status,
        duration_seconds |-> mcpData.duration,
        call_id |-> mcpData.call_id,
        credits_used |-> mcpData.credits,
        transcript |-> formatTranscript(mcpData.transcript),
        events |-> generateEventsFromMcp(mcpData)]

\* {...prevData, ...formattedData}
MergeSnapshot(prevData, formattedData) ==
  IF "null" \in DOMAIN formattedData THEN prevData
  ELSE [f \in DOMAIN prevData \cup DOMAIN formattedData |->
          IF f \in DOMAIN formattedData THEN formattedData[f] ELSE prevData[f]]

\* statusToStepIndex[status]: an own property, a property inherited from
\* Object.prototype ('constructor' is the function Object), or undefined
statusToStepIndex(status) ==
  CASE status = "initiated" -> [kind |-> "number", n |-> 0]
    [] status = "queued" -> [kind |-> "number", n |-> 1]
    [] status = "in_progress" -> [kind |-> "number", n |-> 2]
    [] status = "completed" -> [kind |-> "number", n |-> 3]
    [] status = "error" -> [kind |-> "number", n |-> 0 - 1]
    [] status = "constructor" -> [kind |-> "function", n |-> 0]
    [] OTHER -> [kind |-> "undefined", n |-> 0]

\* the activeStep effect on a new snapshot: stepIndex = statusToStepIndex[status] || 0,
\* then setActiveStep(stepIndex), which calls a function argument as an updater
nextActiveStep(prev, snapshot) ==
  IF snapshot.status = Absent THEN prev
  ELSE LET found == statusToStepIndex(snapshot.status) IN
       CASE found.kind = "number" -> [n |-> found.n, boxed |-> FALSE]
         [] found.kind = "function" -> [n |-> prev.n, boxed |-> TRUE]
         [] OTHER -> [n |-> 0, boxed |-> FALSE]

\* a state setter of an instance that is gone is a no-op
Live(r) == mounted /\ r.gen >= instGen

Request(kind, cid, g) == [kind |-> kind, cid |-> cid, gen |-> g, id |-> issued + 1]

(* ------------------------------ Init ----------------------------------- *)
SyncInit ==
  /\ impl \in {"hook", "component"}
  /\ blandmcp \in Hosts
  /\ mounted = FALSE
  /\ callId = NoCall
  /\ gen = 0
  /\ instGen = 0
  /\ callData = EmptySnapshot
  /\ loading = FALSE
  /\ error = NoError
  /\ usingMcp = FALSE
  /\ refreshCount = 0
  /\ activeStep = InitialStep
  /\ intervals = {}
  /\ listeners = {}
  /\ cleanup = NoCleanup
  /\ inflight = {}
  /\ issued = 0
  /\ termGens = {}
  /\ pushTermGens = {}
  /\ refreshOutcome = "none"
  /\ writer = "none"

\* App and ScheduleMeeting right after mount: App's effect has called fetchFreeSlots()
FormInit ==
  /\ phoneNumber = <<>>
  /\ inviteeName = ""
  /\ occasion = "Coffee"
  /\ duration = "30 minutes"
  /\ selectedSlots = <<>>
  /\ errors = NoErrors
  /\ submitting = FALSE
  /\ success = FALSE
  /\ successTimer = FALSE
  /\ appLoading = TRUE
  /\ appError = NoError
  /\ freeSlots = {}
  /\ activeCall = NoActiveCall
  /\ placeInflight = <<>>
  /\ slotsInflight = 1

\* the synchronizer before its first mount, the form idle
Init == SyncInit /\ FormInit

(* ------------------- React effect: cleanup, then body ------------------ *)
\* hook, part_000 82-86 / 95-97: what the pending cleanup leaves of the timers
HookCleanupIntervals ==
  IF cleanup.kind = "poll" THEN {t \in intervals : t.gen # cleanup.gen} ELSE intervals

\* a cleanup that never unregisters
HookCleanupListeners_Never == listeners

\* hook, part_000 82-86: what the pending cleanup leaves of the listener registry
HookCleanupListeners ==
  IF cleanup.kind = "mcp" /\ blandmcp.unreg
  THEN {l \in listeners : l.cid # cleanup.cid}
  ELSE listeners

\* component, CallStatus.js 90-92
CompCleanupIntervals ==
  IF cleanup.kind = "poll" THEN {t \in intervals : t.gen # cleanup.gen} ELSE intervals

\* the body of the hook's effect for callId c, run on timers ivs and listeners lst
\* left by the cleanup, with ld and um the current loading and usingMcp
HookEffect(c, ivs, lst, ld, um) ==
  LET g == gen + 1 IN
  /\ gen' = g
  /\ IF c = NoCall
     THEN /\ usingMcp' = um
          /\ loading' = ld
          /\ intervals' = ivs
          /\ listeners' = lst
          /\ cleanup' = NoCleanup
          /\ UNCHANGED <<inflight, issued>>
     ELSE /\ issued < MaxRequests
          /\ issued' = issued + 1
          /\ IF checkMcpAvailability
             THEN /\ intervals' = ivs
                  /\ cleanup' = [kind |-> "mcp", cid |-> c, gen |-> g]
                  /\ IF blandmcp.reg
                     THEN /\ listeners' = lst \cup {[cid |-> c, gen |-> g]}
                          /\ inflight' = inflight \cup {Request("details", c, g)}
                          /\ usingMcp' = TRUE
                          /\ loading' = ld
                     ELSE /\ listeners' = lst
                          /\ inflight' = inflight \cup {Request("initial", c, g)}
                          /\ usingMcp' = FALSE
                          /\ loading' = TRUE
             ELSE /\ usingMcp' = FALSE
                  /\ loading' = TRUE
                  /\ inflight' = inflight \cup {Request("initial", c, g)}
                  /\ intervals' = ivs \cup {[cid |-> c, gen |-> g]}
                  /\ listeners' = lst
                  /\ cleanup' = [kind |-> "poll", cid |-> c, gen |-> g]

\* the body of the component's polling effect for callId c
CompEffect(c, ivs, ld) ==
  LET g == gen + 1 IN
  /\ gen' = g
  /\ IF c = NoCall
     THEN /\ loading' = ld
          /\ UNCHANGED <<inflight, issued>>
     ELSE /\ issued < MaxRequests
          /\ issued' = issued + 1
          /\ loading' = TRUE
          /\ inflight' = inflight \cup {Request("initial", c, g)}
  /\ intervals' = ivs \cup {[cid |-> c, gen |-> g]}
  /\ cleanup' = [kind |-> "poll", cid |-> c, gen |-> g]
  /\ UNCHANGED <<listeners, usingMcp>>

(* ------------------------- lifecycle actions --------------------------- *)
HookMount(c, initialData) ==
  /\ impl = "hook"
  /\ ~mounted
  /\ gen < MaxEffects
  /\ mounted' = TRUE
  /\ callId' = c
  /\ instGen' = gen + 1
  /\ callData' = initialData
  /\ error' = NoError
  /\ HookEffect(c, intervals, listeners, FALSE, FALSE)
  /\ writer' = "none"
  /\ UNCHANGED formVars
  /\ UNCHANGED activeStep
  /\ UNCHANGED <<impl, blandmcp, refreshCount, termGens, pushTermGens, refreshOutcome>>

HookChangeCallId(c) ==
  /\ impl = "hook"
  /\ mounted
  /\ c # callId
  /\ gen < MaxEffects
  /\ callId' = c
  /\ HookEffect(c, HookCleanupIntervals, HookCleanupListeners, loading, usingMcp)
  /\ UNCHANGED formVars
  /\ UNCHANGED activeStep
  /\ UNCHANGED writer
  /\ UNCHANGED <<impl, blandmcp, mounted, instGen, callData, error, refreshCount, termGens, pushTermGens, refreshOutcome>>

HookUnmount ==
  /\ impl = "hook"
  /\ mounted
  /\ mounted' = FALSE
  /\ intervals' = HookCleanupIntervals
  /\ listeners' = HookCleanupListeners
  /\ cleanup' = NoCleanup
  /\ callId' = NoCall
  /\ callData' = EmptySnapshot
  /\ loading' = FALSE
  /\ error' = NoError
  /\ usingMcp' = FALSE
  /\ writer' = "none"
  /\ UNCHANGED formVars
  /\ UNCHANGED activeStep
  /\ UNCHANGED <<impl, blandmcp, gen, instGen, refreshCount, inflight, issued, termGens, pushTermGens, refreshOutcome>>

CompMount(c, initialData) ==
  /\ impl = "component"
  /\ ~mounted
  /\ gen < MaxEffects
  /\ mounted' = TRUE
  /\ callId' = c
  /\ instGen' = gen + 1
  /\ callData' = initialData
  /\ error' = NoError
  /\ refreshCount' = 0
  /\ CompEffect(c, intervals, FALSE)
  /\ writer' = "none"
  /\ UNCHANGED formVars
  /\ activeStep' = nextActiveStep(InitialStep, initialData)
  /\ UNCHANGED <<impl, blandmcp, termGens, pushTermGens, refreshOutcome>>

CompChangeCallId(c) ==
  /\ impl = "component"
  /\ mounted
  /\ c # callId
  /\ gen < MaxEffects
  /\ callId' = c
  /\ CompEffect(c, CompCleanupIntervals, loading)
  /\ UNCHANGED formVars
  /\ UNCHANGED activeStep
  /\ UNCHANGED writer
  /\ UNCHANGED <<impl, blandmcp, mounted, instGen, callData, error, refreshCount, termGens, pushTermGens, refreshOutcome>>

CompUnmount ==
  /\ impl = "component"
  /\ mounted
  /\ mounted' = FALSE
  /\ intervals' = CompCleanupIntervals
  /\ cleanup' = NoCleanup
  /\ callId' = NoCall
  /\ callData' = EmptySnapshot
  /\ loading' = FALSE
  /\ error' = NoError
  /\ refreshCount' = 0
  /\ writer' = "none"
  /\ UNCHANGED formVars
  /\ activeStep' = InitialStep
  /\ UNCHANGED <<impl, blandmcp, gen, instGen, usingMcp, listeners, inflight, issued, termGens, pushTermGens, refreshOutcome>>

(* ----------------------- hook: fetchCallStatus -------------------------- *)
\* the interval of effect run t.gen fires: fetchCallStatus() up to its await
HookTick(t) ==
  /\ impl = "hook"
  /\ t \in intervals
  /\ issued < MaxRequests
  /\ issued' = issued + 1
  /\ inflight' = inflight \cup {Request("tick", t.cid, t.gen)}
  /\ loading' = IF Live(t) THEN TRUE ELSE loading
  /\ UNCHANGED formVars
  /\ UNCHANGED activeStep
  /\ UNCHANGED writer
  /\ UNCHANGED <<impl, blandmcp, mounted, callId, gen, instGen, callData, error, usingMcp, refreshCount, intervals, listeners, cleanup, termGens, pushTermGens, refreshOutcome>>

\* HookFetchOk with the clearInterval call left out
HookFetchOk_KeepsTimer(r, data) ==
  /\ impl = "hook"
  /\ r \in inflight
  /\ r.kind \in {"initial", "tick", "fallback"}
  /\ inflight' = inflight \ {r}
  /\ callData' = IF Live(r) THEN data ELSE callData
  /\ error' = IF Live(r) THEN NoError ELSE error
  /\ termGens' = IF IsTerminal(data.status) THEN termGens \cup {r.gen} ELSE termGens
  /\ loading' = IF Live(r) THEN FALSE ELSE loading
  /\ writer' = IF Live(r) THEN r.kind ELSE writer
  /\ UNCHANGED formVars
  /\ UNCHANGED activeStep
  /\ UNCHANGED <<impl, blandmcp, mounted, callId, gen, instGen, usingMcp, refreshCount, intervals, listeners, cleanup, issued, pushTermGens, refreshOutcome>>

\* HookFetchOk that drops a response once its effect run has seen a terminal status
HookFetchOk_DropsStale(r, data) ==
  /\ impl = "hook"
  /\ r \in inflight
  /\ r.kind \in {"initial", "tick", "fallback"}
  /\ inflight' = inflight \ {r}
  /\ callData' = IF Live(r) /\ r.gen \notin termGens THEN data ELSE callData
  /\ error' = IF Live(r) THEN NoError ELSE error
  /\ IF IsTerminal(data.status)
     THEN /\ intervals' = {t \in intervals : t.gen # r.gen}
          /\ termGens' = termGens \cup {r.gen}
     ELSE UNCHANGED <<intervals, termGens>>
  /\ loading' = IF Live(r) THEN FALSE ELSE loading
  /\ writer' = IF Live(r) /\ r.gen \notin termGens THEN r.kind ELSE writer
  /\ UNCHANGED formVars
  /\ UNCHANGED activeStep
  /\ UNCHANGED <<impl, blandmcp, mounted, callId, gen, instGen, usingMcp, refreshCount, listeners, cleanup, issued, pushTermGens, refreshOutcome>>

\* getCallStatus resolved with data: the try block after the await, then finally
HookFetchOk(r, data) ==
  /\ impl = "hook"
  /\ r \in inflight
  /\ r.kind \in {"initial", "tick", "fallback"}
  /\ inflight' = inflight \ {r}
  /\ callData' = IF Live(r) THEN data ELSE callData
  /\ error' = IF Live(r) THEN NoError ELSE error
  /\ IF IsTerminal(data.status)
     THEN /\ intervals' = {t \in intervals : t.gen # r.gen}
          /\ termGens' = termGens \cup {r.gen}
     ELSE UNCHANGED <<intervals, termGens>>
  /\ loading' = IF Live(r) THEN FALSE ELSE loading
  /\ writer' = IF Live(r) THEN r.kind ELSE writer
  /\ UNCHANGED formVars
  /\ UNCHANGED activeStep
  /\ UNCHANGED <<impl, blandmcp, mounted, callId, gen, instGen, usingMcp, refreshCount, listeners, cleanup, issued, pushTermGens, refreshOutcome>>

\* HookFetchFail that also stops the timer
HookFetchFail_StopsTimer(r) ==
  /\ impl = "hook"
  /\ r \in inflight
  /\ r.kind \in {"initial", "tick", "fallback"}
  /\ inflight' = inflight \ {r}
  /\ error' = IF Live(r) THEN "Unable to fetch call status" ELSE error
  /\ loading' = IF Live(r) THEN FALSE ELSE loading
  /\ intervals' = {t \in intervals : t.gen # r.gen}
  /\ UNCHANGED formVars
  /\ UNCHANGED activeStep
  /\ UNCHANGED writer
  /\ UNCHANGED <<impl, blandmcp, mounted, callId, gen, instGen, callData, usingMcp, refreshCount, listeners, cleanup, issued, termGens, pushTermGens, refreshOutcome>>

\* getCallStatus rejected: the catch block, then finally
HookFetchFail(r) ==
  /\ impl = "hook"
  /\ r \in inflight
  /\ r.kind \in {"initial", "tick", "fallback"}
  /\ inflight' = inflight \ {r}
  /\ error' = IF Live(r) THEN "Unable to fetch call status" ELSE error
  /\ loading' = IF Live(r) THEN FALSE ELSE loading
  /\ UNCHANGED formVars
  /\ UNCHANGED activeStep
  /\ UNCHANGED writer
  /\ UNCHANGED <<impl, blandmcp, mounted, callId, gen, instGen, callData, usingMcp, refreshCount, intervals, listeners, cleanup, issued, termGens, pushTermGens, refreshOutcome>>

(* ----------------------- hook: handleMcpUpdate -------------------------- *)
\* the host calls the listener l with an event whose call_id is e (NoCall: no event object)
McpEvent(l, e) ==
  /\ impl = "hook"
  /\ l \in listeners
  /\ IF e = l.cid
     THEN /\ issued < MaxRequests
          /\ issued' = issued + 1
          /\ inflight' = inflight \cup {Request("details", l.cid, l.gen)}
     ELSE UNCHANGED <<inflight, issued>>
  /\ UNCHANGED formVars
  /\ UNCHANGED activeStep
  /\ UNCHANGED writer
  /\ UNCHANGED <<impl, blandmcp, mounted, callId, gen, instGen, callData, loading, error, usingMcp, refreshCount, intervals, listeners, cleanup, termGens, pushTermGens, refreshOutcome>>

\* get_call_details resolved with mcpData: normalize and merge
McpDetailsOk(r, mcpData) ==
  /\ impl = "hook"
  /\ r \in inflight
  /\ r.kind = "details"
  /\ inflight' = inflight \ {r}
  /\ callData' = IF Live(r) THEN MergeSnapshot(callData, formatMcpCallData(mcpData)) ELSE callData
  /\ error' = IF Live(r) THEN NoError ELSE error
  /\ pushTermGens' = IF Live(r) /\ "null" \notin DOMAIN mcpData /\ IsTerminal(mcpData.status)
                     THEN pushTermGens \cup {r.gen} ELSE pushTermGens
  /\ writer' = IF Live(r) THEN "details" ELSE writer
  /\ UNCHANGED formVars
  /\ UNCHANGED activeStep
  /\ UNCHANGED <<impl, blandmcp, mounted, callId, gen, instGen, loading, usingMcp, refreshCount, intervals, listeners, cleanup, issued, termGens, refreshOutcome>>

\* McpDetailsFail whose catch block only logs
McpDetailsFail_NoFallback(r) ==
  /\ impl = "hook"
  /\ r \in inflight
  /\ r.kind = "details"
  /\ inflight' = inflight \ {r}
  /\ UNCHANGED formVars
  /\ UNCHANGED activeStep
  /\ UNCHANGED writer
  /\ UNCHANGED <<impl, blandmcp, mounted, callId, gen, instGen, callData, loading, error, usingMcp, refreshCount, intervals, listeners, cleanup, issued, termGens, pushTermGens, refreshOutcome>>

\* get_call_details rejected: the catch block calls fetchCallStatus() (up to its await)
McpDetailsFail(r) ==
  /\ impl = "hook"
  /\ r \in inflight
  /\ r.kind = "details"
  /\ issued < MaxRequests
  /\ issued' = issued + 1
  /\ inflight' = (inflight \ {r}) \cup {Request("fallback", r.cid, r.gen)}
  /\ loading' = IF Live(r) THEN TRUE ELSE loading
  /\ UNCHANGED formVars
  /\ UNCHANGED activeStep
  /\ UNCHANGED writer
  /\ UNCHANGED <<impl, blandmcp, mounted, callId, gen, instGen, callData, error, usingMcp, refreshCount, intervals, listeners, cleanup, termGens, pushTermGens, refreshOutcome>>

(* ---------------------------- hook: refresh ----------------------------- *)
Refresh ==
  /\ impl = "hook"
  /\ mounted
  /\ issued < MaxRequests
  /\ issued' = issued + 1
  /\ inflight' = inflight \cup {Request("refresh", callId, gen)}
  /\ loading' = TRUE
  /\ UNCHANGED formVars
  /\ UNCHANGED activeStep
  /\ UNCHANGED writer
  /\ UNCHANGED <<impl, blandmcp, mounted, callId, gen, instGen, callData, error, usingMcp, refreshCount, intervals, listeners, cleanup, termGens, pushTermGens, refreshOutcome>>

RefreshOk(r, data) ==
  /\ impl = "hook"
  /\ r \in inflight
  /\ r.kind = "refresh"
  /\ inflight' = inflight \ {r}
  /\ callData' = IF Live(r) THEN data ELSE callData
  /\ error' = IF Live(r) THEN NoError ELSE error
  /\ loading' = IF Live(r) THEN FALSE ELSE loading
  /\ refreshOutcome' = "resolved"
  /\ writer' = IF Live(r) THEN "refresh" ELSE writer
  /\ UNCHANGED formVars
  /\ UNCHANGED activeStep
  /\ UNCHANGED <<impl, blandmcp, mounted, callId, gen, instGen, usingMcp, refreshCount, intervals, listeners, cleanup, issued, termGens, pushTermGens>>

\* RefreshFail without the rethrow: the promise resolves
RefreshFail_Swallows(r) ==
  /\ impl = "hook"
  /\ r \in inflight
  /\ r.kind = "refresh"
  /\ inflight' = inflight \ {r}
  /\ error' = IF Live(r) THEN "Failed to refresh call status" ELSE error
  /\ loading' = IF Live(r) THEN FALSE ELSE loading
  /\ refreshOutcome' = "resolved"
  /\ UNCHANGED formVars
  /\ UNCHANGED activeStep
  /\ UNCHANGED writer
  /\ UNCHANGED <<impl, blandmcp, mounted, callId, gen, instGen, callData, usingMcp, refreshCount, intervals, listeners, cleanup, issued, termGens, pushTermGens>>

RefreshFail(r) ==
  /\ impl = "hook"
  /\ r \in inflight
  /\ r.kind = "refresh"
  /\ inflight' = inflight \ {r}
  /\ error' = IF Live(r) THEN "Failed to refresh call status" ELSE error
  /\ loading' = IF Live(r) THEN FALSE ELSE loading
  /\ refreshOutcome' = "rejected"
  /\ UNCHANGED formVars
  /\ UNCHANGED activeStep
  /\ UNCHANGED writer
  /\ UNCHANGED <<impl, blandmcp, mounted, callId, gen, instGen, callData, usingMcp, refreshCount, intervals, listeners, cleanup, issued, termGens, pushTermGens>>

(* -------------------- component: fetchCallStatus ------------------------ *)
\* the interval callback: fetchCallStatus() up to its await, then setRefreshCount
CompTick(t) ==
  /\ impl = "component"
  /\ t \in intervals
  /\ refreshCount < MaxRefreshCount
  /\ IF t.cid = NoCall
     THEN UNCHANGED <<inflight, issued, loading>>
     ELSE /\ issued < MaxRequests
          /\ issued' = issued + 1
          /\ inflight' = inflight \cup {Request("tick", t.cid, t.gen)}
          /\ loading' = IF Live(t) THEN TRUE ELSE loading
  /\ refreshCount' = IF Live(t) THEN refreshCount + 1 ELSE refreshCount
  /\ UNCHANGED formVars
  /\ UNCHANGED activeStep
  /\ UNCHANGED writer
  /\ UNCHANGED <<impl, blandmcp, mounted, callId, gen, instGen, callData, error, usingMcp, intervals, listeners, cleanup, termGens, pushTermGens, refreshOutcome>>

CompFetchOk(r, data) ==
  /\ impl = "component"
  /\ r \in inflight
  /\ r.kind \in {"initial", "tick"}
  /\ inflight' = inflight \ {r}
  /\ callData' = IF Live(r) THEN data ELSE callData
  /\ error' = IF Live(r) THEN NoError ELSE error
  /\ IF IsTerminal(data.status)
     THEN /\ intervals' = {t \in intervals : t.gen # r.gen}
          /\ termGens' = termGens \cup {r.gen}
     ELSE UNCHANGED <<intervals, termGens>>
  /\ loading' = IF Live(r) THEN FALSE ELSE loading
  /\ writer' = IF Live(r) THEN r.kind ELSE writer
  /\ UNCHANGED formVars
  /\ activeStep' = IF Live(r) THEN nextActiveStep(activeStep, data) ELSE activeStep
  /\ UNCHANGED <<impl, blandmcp, mounted, callId, gen, instGen, usingMcp, refreshCount, listeners, cleanup, issued, pushTermGens, refreshOutcome>>

CompFetchFail(r) ==
  /\ impl = "component"
  /\ r \in inflight
  /\ r.kind \in {"initial", "tick"}
  /\ inflight' = inflight \ {r}
  /\ error' = IF Live(r) THEN "Unable to fetch call status" ELSE error
  /\ loading' = IF Live(r) THEN FALSE ELSE loading
  /\ UNCHANGED formVars
  /\ UNCHANGED activeStep
  /\ UNCHANGED writer
  /\ UNCHANGED <<impl, blandmcp, mounted, callId, gen, instGen, callData, usingMcp, refreshCount, intervals, listeners, cleanup, issued, termGens, pushTermGens, refreshOutcome>>

SyncNext ==
  \/ \E c \in CallIds \cup {NoCall}, d \in InitialDatas : HookMount(c, d)
  \/ \E c \in CallIds \cup {NoCall} : HookChangeCallId(c)
  \/ HookUnmount
  \/ \E c \in CallIds \cup {NoCall}, d \in InitialDatas : CompMount(c, d)
  \/ \E c \in CallIds \cup {NoCall} : CompChangeCallId(c)
  \/ CompUnmount
  \/ \E t \in intervals : HookTick(t)
  \/ \E r \in inflight, data \in PollDatas : HookFetchOk(r, data)
  \/ \E r \in inflight : HookFetchFail(r)
  \/ \E l \in listeners, e \in CallIds \cup {NoCall} : McpEvent(l, e)
  \/ \E r \in inflight, mcpData \in McpDatas \cup {NullData} : McpDetailsOk(r, mcpData)
  \/ \E r \in inflight : McpDetailsFail(r)
  \/ Refresh
  \/ \E r \in inflight, data \in PollDatas : RefreshOk(r, data)
  \/ \E r \in inflight : RefreshFail(r)
  \/ \E t \in intervals : CompTick(t)
  \/ \E r \in inflight, data \in PollDatas : CompFetchOk(r, data)
  \/ \E r \in inflight : CompFetchFail(r)

\* the hook in push mode, the payloads varying in their transcript
TranscriptInit ==
  /\ SyncInit
  /\ impl = "hook"
  /\ blandmcp = [present |-> TRUE, reg |-> TRUE, unreg |-> TRUE]
  /\ FormInit

TranscriptNext ==
  \/ \E c \in CallIds, d \in InitialDatas : HookMount(c, d)
  \/ \E r \in inflight, mcpData \in TranscriptPayloads : McpDetailsOk(r, mcpData)

SpecTranscript == TranscriptInit /\ [][TranscriptNext]_vars

\* the hook in push mode, the payloads varying in status, timestamps and counters
EventsNext ==
  \/ \E c \in CallIds, d \in InitialDatas : HookMount(c, d)
  \/ \E r \in inflight, mcpData \in EventPayloads : McpDetailsOk(r, mcpData)

SpecEvents == TranscriptInit /\ [][EventsNext]_vars

\* the CallStatus component, the responses varying in their status
StageInit ==
  /\ SyncInit
  /\ impl = "component"
  /\ ~blandmcp.present
  /\ FormInit

StageNext ==
  \/ \E c \in CallIds, d \in InitialDatas : CompMount(c, d)
  \/ CompUnmount
  \/ \E t \in intervals : CompTick(t)
  \/ \E r \in inflight, data \in StagePollDatas : CompFetchOk(r, data)
  \/ \E r \in inflight : CompFetchFail(r)

SpecStage == StageInit /\ [][StageNext]_vars

(* ========================= ScheduleMeeting / App ======================== *)
\* a pattern whose first digit may be 0
validatePhoneNumber_AllowsLeadingZero(number) ==
  LET body == IF Len(number) >= 1 /\ number[1] = "+" THEN Tail(number) ELSE number IN
  /\ Len(body) >= 2
  /\ Len(body) <= 15
  /\ \A i \in 1..Len(body) : body[i] \in Digits

\* /^\+?[1-9]\d{1,14}$/.test(number)
validatePhoneNumber(number) ==
  LET body == IF Len(number) >= 1 /\ number[1] = "+" THEN Tail(number) ELSE number IN
  /\ Len(body) >= 2
  /\ Len(body) <= 15
  /\ body[1] \in Digits \ {"0"}
  /\ \A i \in 2..Len(body) : body[i] \in Digits

\* formatSlot(slot): id, display label and the raw start and end
formatSlot(slot) ==
  [start |-> slot.start,
   end |-> slot.end,
   id |-> slot.start \o "-" \o slot.end,
   label |-> "label(" \o slot.start \o ", " \o slot.end \o ")"]

\* validateForm without the slots rule
newErrors_NoSlotsRule ==
  LET phoneKey == IF phoneNumber = <<>> \/ ~validatePhoneNumber(phoneNumber) THEN {"phoneNumber"} ELSE {}
      nameKey == IF inviteeName = "" THEN {"inviteeName"} ELSE {}
  IN [k \in phoneKey \cup nameKey |->
        CASE k = "phoneNumber" -> IF phoneNumber = <<>> THEN "Phone number is required"
                                  ELSE "Enter a valid phone number (e.g., +11234567890)"
          [] k = "inviteeName" -> "Invitee name is required"]

\* the newErrors object validateForm builds
newErrors ==
  LET phoneKey == IF phoneNumber = <<>> \/ ~validatePhoneNumber(phoneNumber) THEN {"phoneNumber"} ELSE {}
      nameKey == IF inviteeName = "" THEN {"inviteeName"} ELSE {}
      slotsKey == IF Len(selectedSlots) = 0 THEN {"slots"} ELSE {}
  IN [k \in phoneKey \cup nameKey \cup slotsKey |->
        CASE k = "phoneNumber" -> IF phoneNumber = <<>> THEN "Phone number is required"
                                  ELSE "Enter a valid phone number (e.g., +11234567890)"
          [] k = "inviteeName" -> "Invitee name is required"
          [] k = "slots" -> "Select at least one available time slot"]

\* validateForm()'s return value
validateForm == DOMAIN newErrors = {}

\* a CallRequest that sends the formatted slots, id and label included
CallRequest_SendsFormatted ==
  [duration |-> duration,
   phoneNumber |-> phoneNumber,
   inviteeName |-> inviteeName,
   occasion |-> occasion,
   availabilities |-> selectedSlots,
   voice |-> "josh"]

\* the CallRequest handleSubmit hands to onPlaceCall
CallRequest ==
  [duration |-> duration,
   phoneNumber |-> phoneNumber,
   inviteeName |-> inviteeName,
   occasion |-> occasion,
   availabilities |-> [i \in 1..Len(selectedSlots) |-> [start |-> selectedSlots[i].start, end |-> selectedSlots[i].end]],
   voice |-> "josh"]

\* a submit Button that is never disabled
SubmitEnabled_Always == TRUE

\* the submit Button is enabled: disabled={loading || submitting}
SubmitEnabled == ~(appLoading \/ submitting)

SetPhoneNumber(p) ==
  /\ ~submitting
  /\ phoneNumber' = p
  /\ UNCHANGED syncVars
  /\ UNCHANGED <<inviteeName, occasion, duration, selectedSlots, errors, submitting, success, successTimer, appLoading, appError, freeSlots, activeCall, placeInflight, slotsInflight>>

SetInviteeName(n) ==
  /\ ~submitting
  /\ inviteeName' = n
  /\ UNCHANGED syncVars
  /\ UNCHANGED <<phoneNumber, occasion, duration, selectedSlots, errors, submitting, success, successTimer, appLoading, appError, freeSlots, activeCall, placeInflight, slotsInflight>>

SetOccasion(o) ==
  /\ ~submitting
  /\ occasion' = o
  /\ UNCHANGED syncVars
  /\ UNCHANGED <<phoneNumber, inviteeName, duration, selectedSlots, errors, submitting, success, successTimer, appLoading, appError, freeSlots, activeCall, placeInflight, slotsInflight>>

SetDuration(d) ==
  /\ ~submitting
  /\ duration' = d
  /\ UNCHANGED syncVars
  /\ UNCHANGED <<phoneNumber, inviteeName, occasion, selectedSlots, errors, submitting, success, successTimer, appLoading, appError, freeSlots, activeCall, placeInflight, slotsInflight>>

\* handleSlotSelect without the limit of 5
toggleSlot_NoLimit(selected, formatted) ==
  IF \E i \in 1..Len(selected) : selected[i].id = formatted.id
  THEN SelectSeq(selected, LAMBDA s : s.id # formatted.id)
  ELSE Append(selected, formatted)

\* handleSlotSelect that never removes
toggleSlot_AddOnly(selected, formatted) ==
  IF Len(selected) < 5 THEN Append(selected, formatted) ELSE selected

\* the array handleSlotSelect(formatted) leaves in selectedSlots when it held selected
toggleSlot(selected, formatted) ==
  IF \E i \in 1..Len(selected) : selected[i].id = formatted.id
  THEN SelectSeq(selected, LAMBDA s : s.id # formatted.id)
  ELSE IF Len(selected) < 5 THEN Append(selected, formatted)
  ELSE selected

\* a click on a slot chip of the list, or on the delete icon of a selected slot
handleSlotSelect(formatted) ==
  /\ ~submitting
  /\ \/ ~appLoading /\ \E slot \in freeSlots : formatted = formatSlot(slot)
     \/ \E i \in 1..Len(selectedSlots) : formatted = selectedSlots[i]
  /\ selectedSlots' = toggleSlot(selectedSlots, formatted)
  /\ UNCHANGED syncVars
  /\ UNCHANGED <<phoneNumber, inviteeName, occasion, duration, errors, submitting, success, successTimer, appLoading, appError, freeSlots, activeCall, placeInflight, slotsInflight>>

\* the submit event: handleSubmit up to its await, App.handlePlaceCall up to its await
handleSubmit ==
  /\ SubmitEnabled
  /\ errors' = newErrors
  /\ IF validateForm
     THEN /\ submitting' = TRUE
          /\ appLoading' = TRUE
          /\ appError' = NoError
          /\ placeInflight' = Append(placeInflight, CallRequest)
     ELSE UNCHANGED <<submitting, appLoading, appError, placeInflight>>
  /\ UNCHANGED syncVars
  /\ UNCHANGED <<phoneNumber, inviteeName, occasion, duration, selectedSlots, success, successTimer, freeSlots, activeCall, slotsInflight>>

\* placeCall resolved: handlePlaceCall's try and finally, then handleSubmit's
\* ("cd" stands for the request object kept as callData, as in InitialDatas)
PlaceCallOk(response) ==
  /\ placeInflight # <<>>
  /\ placeInflight' = Tail(placeInflight)
  /\ activeCall' = [status |-> response.status, callData |-> "cd", call_id |-> response.call_id]
  /\ appLoading' = FALSE
  /\ success' = TRUE
  /\ successTimer' = TRUE
  /\ selectedSlots' = <<>>
  /\ submitting' = FALSE
  /\ UNCHANGED syncVars
  /\ UNCHANGED <<phoneNumber, inviteeName, occasion, duration, errors, appError, freeSlots, slotsInflight>>

\* placeCall rejected: handlePlaceCall's catch and finally, then handleSubmit's
PlaceCallFail ==
  /\ placeInflight # <<>>
  /\ placeInflight' = Tail(placeInflight)
  /\ appError' = "Failed to place call. Please check your inputs and try again."
  /\ appLoading' = FALSE
  /\ submitting' = FALSE
  /\ UNCHANGED syncVars
  /\ UNCHANGED <<phoneNumber, inviteeName, occasion, duration, selectedSlots, errors, success, successTimer, freeSlots, activeCall, slotsInflight>>

\* the 3000 ms timer of the success effect fires
SuccessTimeout ==
  /\ successTimer
  /\ success' = FALSE
  /\ successTimer' = FALSE
  /\ UNCHANGED syncVars
  /\ UNCHANGED <<phoneNumber, inviteeName, occasion, duration, selectedSlots, errors, submitting, appLoading, appError, freeSlots, activeCall, placeInflight, slotsInflight>>

\* the refresh IconButton: App.fetchFreeSlots up to its await
RefreshSlots ==
  /\ ~(appLoading \/ submitting)
  /\ appLoading' = TRUE
  /\ appError' = NoError
  /\ slotsInflight' = slotsInflight + 1
  /\ UNCHANGED syncVars
  /\ UNCHANGED <<phoneNumber, inviteeName, occasion, duration, selectedSlots, errors, submitting, success, successTimer, freeSlots, activeCall, placeInflight>>

FreeSlotsOk(slots) ==
  /\ slotsInflight > 0
  /\ slotsInflight' = slotsInflight - 1
  /\ freeSlots' = slots
  /\ appLoading' = FALSE
  /\ UNCHANGED syncVars
  /\ UNCHANGED <<phoneNumber, inviteeName, occasion, duration, selectedSlots, errors, submitting, success, successTimer, appError, activeCall, placeInflight>>

FreeSlotsFail ==
  /\ slotsInflight > 0
  /\ slotsInflight' = slotsInflight - 1
  /\ appError' = "Failed to load free slots. Please try again later."
  /\ appLoading' = FALSE
  /\ UNCHANGED syncVars
  /\ UNCHANGED <<phoneNumber, inviteeName, occasion, duration, selectedSlots, errors, submitting, success, successTimer, freeSlots, activeCall, placeInflight>>

FormNext ==
  \/ \E p \in PhoneInputs : SetPhoneNumber(p)
  \/ \E n \in NameInputs : SetInviteeName(n)
  \/ \E o \in OccasionInputs : SetOccasion(o)
  \/ \E d \in DurationInputs : SetDuration(d)
  \/ \E slot \in AllSlots : handleSlotSelect(formatSlot(slot))
  \/ handleSubmit
  \/ \E response \in PlaceResponses : PlaceCallOk(response)
  \/ PlaceCallFail
  \/ SuccessTimeout
  \/ RefreshSlots
  \/ \E slots \in {{}, AllSlots} : FreeSlotsOk(slots)
  \/ FreeSlotsFail

\* the form and App, with no call-status synchronizer mounted
FormSpecInit ==
  /\ SyncInit
  /\ impl = "component"
  /\ ~blandmcp.present
  /\ FormInit

\* the slot picker alone, once getFreeSlots has delivered PickSlots
SlotsInit ==
  /\ SyncInit
  /\ impl = "component"
  /\ ~blandmcp.present
  /\ phoneNumber = <<>>
  /\ inviteeName = ""
  /\ occasion = "Coffee"
  /\ duration = "30 minutes"
  /\ selectedSlots = <<>>
  /\ errors = NoErrors
  /\ submitting = FALSE
  /\ success = FALSE
  /\ successTimer = FALSE
  /\ appLoading = FALSE
  /\ appError = NoError
  /\ freeSlots = PickSlots
  /\ activeCall = NoActiveCall
  /\ placeInflight = <<>>
  /\ slotsInflight = 0

SlotsNext == \E slot \in PickSlots : handleSlotSelect(formatSlot(slot))

SpecSlots == SlotsInit /\ [][SlotsNext]_vars

\* the form with a name and a slot filled in, the phone field being typed into
PhoneInit ==
  /\ SyncInit
  /\ impl = "component"
  /\ ~blandmcp.present
  /\ phoneNumber = <<>>
  /\ inviteeName = "Jane"
  /\ occasion = "Coffee"
  /\ duration = "30 minutes"
  /\ \E slot \in AllSlots : selectedSlots = <<formatSlot(slot)>>
  /\ errors = NoErrors
  /\ submitting = FALSE
  /\ success = FALSE
  /\ successTimer = FALSE
  /\ appLoading = FALSE
  /\ appError = NoError
  /\ freeSlots = AllSlots
  /\ activeCall = NoActiveCall
  /\ placeInflight = <<>>
  /\ slotsInflight = 0

PhoneNext ==
  \/ \E p \in PhoneSamples : SetPhoneNumber(p)
  \/ handleSubmit
  \/ PlaceCallFail

SpecPhone == PhoneInit /\ [][PhoneNext]_vars

Next == SyncNext

SpecForm == FormSpecInit /\ [][FormNext]_vars


Spec == Init /\ [][Next]_vars

(* ===================== properties of the normalization ================== *)
\* an array of role/text records, as the specification describes them
WellFormed(entries) ==
  \A i \in 1..Len(entries) :
    /\ entries[i].value = "object"
    /\ entries[i].role \in {"agent", "user"}
    /\ entries[i].text # Undefined

\* what the specification has a transcript normalize to: out is acceptable for transcript
TranscriptAsClaimed(transcript, out) ==
  /\ (transcript.type = "array" /\ WellFormed(transcript.entries)) =>
       out = [i \in 1..Len(transcript.entries) |->
                [role |-> transcript.entries[i].role, text |-> transcript.entries[i].text]]
  /\ (transcript.json = "array" /\ WellFormed(transcript.entries)) =>
       out = [i \in 1..Len(transcript.entries) |->
                [role |-> transcript.entries[i].role, text |-> transcript.entries[i].text]]
  /\ (transcript.json = "invalid" /\ transcript.lines # <<>>) =>
       /\ Len(out) = Len(transcript.lines)
       /\ \A i \in 1..Len(out) :
            LET line == transcript.lines[i] IN
            /\ out[i].role \in {"agent", "user"}
            /\ (line # <<>> /\ Head(line) \in {"Agent:", "agent:", "AI:"}) => out[i].role = "agent"
            /\ (line # <<>> /\ Head(line) = "User:") => out[i].role = "user"
            /\ out[i].text = lineText(line)
  /\ (transcript.type = "undefined" \/ transcript.json = "other"
       \/ (transcript.json = "invalid" /\ transcript.lines = <<>>)) => out = <<>>
  /\ transcript.lines = <<(<<"Agent:", " ", "Hello">>), (<<"User:", " ", "Hi there">>)>> =>
       out = <<[role |-> "agent", text |-> "Hello"], [role |-> "user", text |-> "Hi there"]>>

\* C17: whenever a payload is normalized and merged, the snapshot's transcript
\* is what the specification prescribes for the payload's transcript: one
\* record per input record or line for each of the three accepted shapes, the
\* empty sequence for an absent or unparseable one.
C17_TranscriptNormalized ==
  [][\A r \in inflight, mcpData \in TranscriptPayloads :
       (Live(r) /\ McpDetailsOk(r, mcpData)) =>
          TranscriptAsClaimed(mcpData.transcript, callData'.transcript)]_vars

\* the lifecycle stages in their fixed order, by the status string of their entry
StageNames == <<"Call initiated", "Call queued", "Call in progress", "Call completed", "Call error">>

\* the payload's timestamp of a stage (the payload has none for the error stage)
StageTime(mcpData, k) ==
  CASE k = 1 -> mcpData.created_at
    [] k = 2 -> mcpData.queue_time
    [] k = 3 -> mcpData.start_time
    [] k = 4 -> mcpData.end_time
    [] k = 5 -> Undefined

\* the stage the payload's status names, 0 if none
StatusStage(mcpData) ==
  CASE mcpData.status = "queued" -> 2
    [] mcpData.status = "in_progress" -> 3
    [] mcpData.status = "completed" -> 4
    [] mcpData.status = "error" -> 5
    [] OTHER -> 0

\* C18: whenever a payload is normalized and merged, duration_seconds and
\* credits_used are the payload's duration and credits, and the events are, in
\* the order creation, queue, start, end, error, one entry for each stage whose
\* timestamp the payload holds or whose status it has; an entry carries the
\* payload's timestamp of its stage, and the current time only when the payload
\* has none; for status 'completed' and duration 42 the end entry's details
\* are 'Call finished after 42 seconds'.
C18_EventsDerived ==
  [][\A r \in inflight, mcpData \in EventPayloads :
       (Live(r) /\ McpDetailsOk(r, mcpData)) =>
          LET ev == callData'.events
              stageOf(i) == CHOOSE k \in 1..5 : StageNames[k] = ev[i].status
          IN /\ callData'.duration_seconds = mcpData.duration
             /\ callData'.credits_used = mcpData.credits
             /\ \A i \in 1..Len(ev) : \E k \in 1..5 : StageNames[k] = ev[i].status
             /\ \A i, j \in 1..Len(ev) : i < j => stageOf(i) < stageOf(j)
             /\ \A k \in 1..5 :
                  (\E i \in 1..Len(ev) : stageOf(i) = k) <=>
                     (StageTime(mcpData, k) # Undefined \/ StatusStage(mcpData) = k)
             /\ \A i \in 1..Len(ev) :
                  ev[i].time = IF StageTime(mcpData, stageOf(i)) # Undefined
                               THEN StageTime(mcpData, stageOf(i)) ELSE Now
             /\ (mcpData.status = "completed" /\ mcpData.duration = "42") =>
                  \E i \in 1..Len(ev) :
                     ev[i].status = "Call completed" /\ ev[i].details = "Call finished after 42 seconds"]_vars

\* C18 witness: a completed call with duration 42, credits 3 and all four
\* timestamps has been merged: four entries in order, each with its timestamp.
C18_Witness ==
  /\ mounted
  /\ writer = "details"
  /\ callData.status = "completed"
  /\ callData.duration_seconds = "42"
  /\ callData.credits_used = "3"
  /\ Len(callData.events) = 4
  /\ [i \in 1..4 |-> callData.events[i].time] = <<"t_created", "t_queue", "t_start", "t_end">>
  /\ callData.events[4].details = "Call finished after 42 seconds"

(* ===================== properties of the stage display ================== *)
\* the stage the specification gives a status: the four lifecycle stages in
\* order, the earliest stage for any other string
ClaimedStage(status) ==
  CASE status = "initiated" -> 0
    [] status = "queued" -> 1
    [] status = "in_progress" -> 2
    [] status = "completed" -> 3
    [] OTHER -> 0

\* C19: while the component is mounted, the displayed stage is the stage of
\* the status of the snapshot it holds: 0, 1, 2, 3 for 'initiated', 'queued',
\* 'in_progress', 'completed' and 0 for every other status string ('error',
\* the out-of-band terminal state, is left open).
C19_StageFollowsStatus ==
  (impl = "component" /\ mounted /\ callData.status \notin {Absent, "error"}) =>
     activeStep = [n |-> ClaimedStage(callData.status), boxed |-> FALSE]

(* ===================== properties of the synchronizer =================== *)
\* the response of a refresh() settles in this step
RefreshSettles == \E r \in inflight \ inflight' : r.kind = "refresh"

\* the effect run that is current has applied a snapshot with a terminal status
TerminalApplied == mounted /\ cleanup.gen = gen /\ gen \in termGens \cup pushTermGens

\* C1: once the current effect run has applied a snapshot whose status is
\* 'completed' or 'error', no step other than the settling of a manual refresh
\* changes the snapshot while the instance stays mounted with the same callId.
C1_FrozenAfterTerminal ==
  [][(TerminalApplied /\ mounted' /\ gen' = gen /\ ~RefreshSettles) => callData' = callData]_vars

\* C2: a timer never belongs to an effect run whose fetch continuation has
\* processed a terminal status, and no request is issued by the timer of such
\* an effect run.
C2_TimerCancelledOnTerminal ==
  [][/\ \A t \in intervals' : t.gen \notin termGens'
     /\ \A r \in inflight' \ inflight : r.kind = "tick" => r.gen \notin termGens]_vars

\* C2 witness: poll mode, the only request ever issued was the initial fetch,
\* its response was terminal, and the timer of the current effect run is gone.
C2_Witness ==
  /\ mounted
  /\ cleanup.kind = "poll"
  /\ cleanup.gen \in termGens
  /\ issued = 1
  /\ writer = "initial"
  /\ intervals = {}

\* C3: in push mode no call listener stays registered for an effect run that
\* has received a snapshot with a terminal status.
C3_UnsubscribedOnTerminal ==
  \A l \in listeners : l.gen \notin termGens \cup pushTermGens

\* C4: for a supplied callId the hook registers a call listener exactly when
\* window.blandmcp is present with registerCallListener, and in every other
\* case its interval timer runs until a terminal status has been processed.
C4_StrategySelection ==
  (impl = "hook" /\ mounted /\ callId # NoCall) =>
     /\ (\E l \in listeners : l.gen = gen) <=> (blandmcp.present /\ blandmcp.reg)
     /\ (~(blandmcp.present /\ blandmcp.reg) /\ gen \notin termGens) =>
          [cid |-> callId, gen |-> gen] \in intervals

\* C5: in poll mode a rejected getCallStatus sets the error flag and leaves the
\* snapshot and the timers as they are; a resolved one clears the error flag;
\* a timer goes away only by a terminal status or by the effect's cleanup.
C5_FailureKeepsPolling ==
  [][/\ \A r \in inflight :
          (Live(r) /\ r.kind \in {"initial", "tick"} /\ (HookFetchFail(r) \/ CompFetchFail(r))) =>
             /\ error' = "Unable to fetch call status"
             /\ callData' = callData
             /\ intervals' = intervals
     /\ \A r \in inflight, data \in PollDatas :
          (Live(r) /\ r.kind \in {"initial", "tick"} /\ (HookFetchOk(r, data) \/ CompFetchOk(r, data))) =>
             error' = NoError
     /\ \A t \in intervals \ intervals' : gen' # gen \/ ~mounted' \/ t.gen \in termGens']_vars

\* C5 witness: a poll failed, the timer is still active and has fired again.
C5_Witness ==
  /\ mounted
  /\ error = "Unable to fetch call status"
  /\ \E t \in intervals : t.gen = gen
  /\ \E r \in inflight : r.kind = "tick" /\ r.gen = gen

\* C6: a rejected get_call_details makes the push handler issue exactly one
\* getCallStatus request for the same callId, and the snapshot becomes the
\* response of that request when it resolves.
C6_PushFallback ==
  [][/\ \A r \in inflight : McpDetailsFail(r) =>
          /\ issued' = issued + 1
          /\ inflight' \ inflight = {[kind |-> "fallback", cid |-> r.cid, gen |-> r.gen, id |-> issued']}
     /\ \A r \in inflight, data \in PollDatas :
          (Live(r) /\ r.kind = "fallback" /\ HookFetchOk(r, data)) => callData' = data]_vars

\* C6 witness: the snapshot was last written by the response of a fallback fetch.
C6_Witness == mounted /\ usingMcp /\ writer = "fallback" /\ callData.status \in PayloadStatuses

\* C7 (as claimed): refresh() never rejects.
C7_RefreshDoesNotThrow == refreshOutcome # "rejected"

\* C7 (amended): refresh() issues one getCallStatus request for the current
\* callId; resolved, it replaces the snapshot and clears the error flag;
\* rejected, it sets the error flag, leaves the snapshot and rethrows.
C7_RefreshContract ==
  [][/\ Refresh =>
          /\ issued' = issued + 1
          /\ inflight' \ inflight = {[kind |-> "refresh", cid |-> callId, gen |-> gen, id |-> issued']}
     /\ \A r \in inflight, data \in PollDatas : (Live(r) /\ RefreshOk(r, data)) =>
          /\ callData' = data
          /\ error' = NoError
          /\ refreshOutcome' = "resolved"
     /\ \A r \in inflight : (Live(r) /\ RefreshFail(r)) =>
          /\ error' = "Failed to refresh call status"
          /\ callData' = callData
          /\ refreshOutcome' = "rejected"]_vars

\* C7 witness: a refresh was rejected and the error flag shows it.
C7_Witness == mounted /\ refreshOutcome = "rejected" /\ error = "Failed to refresh call status"

C9_SubmitNotReentrant ==
  [][/\ Len(placeInflight') <= 1
     /\ Len(placeInflight') > Len(placeInflight) =>
          /\ ~submitting
          /\ placeInflight = <<>>
          /\ placeInflight' = <<CallRequest>>]_vars

\* C9 witness: a placement request is in flight and the form is submitting.
C9_Witness == submitting /\ Len(placeInflight) = 1 /\ ~SubmitEnabled

\* the fields whose validation rule fails on the current form state
FailingFields ==
  (IF phoneNumber = <<>> \/ ~validatePhoneNumber(phoneNumber) THEN {"phoneNumber"} ELSE {})
  \cup (IF inviteeName = "" THEN {"inviteeName"} ELSE {})
  \cup (IF selectedSlots = <<>> THEN {"slots"} ELSE {})

\* C10: a submit while some validation rule fails issues no placement
\* request, leaves an error map whose keys are exactly the failing fields,
\* and changes neither the submitting flag nor the selection.
C10_InvalidSubmitBlocked ==
  [][(handleSubmit /\ FailingFields # {}) =>
        /\ placeInflight' = placeInflight
        /\ DOMAIN errors' = FailingFields
        /\ submitting' = submitting
        /\ selectedSlots' = selectedSlots]_vars

\* C10 witness: a submit was blocked with some field failing and some passing.
C10_Witness ==
  /\ DOMAIN errors = FailingFields
  /\ FailingFields # {}
  /\ FailingFields # {"phoneNumber", "inviteeName", "slots"}
  /\ ~submitting
  /\ placeInflight = <<>>
  /\ activeCall = NoActiveCall

(* ======================= properties of the slot picker ================== *)
\* the ids of the selected slots are pairwise distinct
DistinctIds(selected) ==
  \A i, j \in 1..Len(selected) : selected[i].id = selected[j].id => i = j

\* C11: the selection never holds more than 5 slots and its ids are pairwise
\* distinct; a select of a slot that is not selected while 5 are selected
\* leaves the selection and the error map exactly as they were.
C11_SelectionBounded ==
  [][/\ Len(selectedSlots') <= 5
     /\ DistinctIds(selectedSlots')
     /\ \A slot \in PickSlots :
          (/\ handleSlotSelect(formatSlot(slot))
           /\ Len(selectedSlots) = 5
           /\ \A i \in 1..5 : selectedSlots[i].id # formatSlot(slot).id) =>
             /\ selectedSlots' = selectedSlots
             /\ errors' = errors]_vars

\* C11 witness: 5 slots are selected and a further slot is on offer.
C11_Witness ==
  /\ Len(selectedSlots) = 5
  /\ \E slot \in freeSlots : \A i \in 1..5 : selectedSlots[i].id # formatSlot(slot).id
  /\ toggleSlot(selectedSlots, formatSlot(CHOOSE slot \in freeSlots : \A i \in 1..5 : selectedSlots[i].id # formatSlot(slot).id)) = selectedSlots

\* the slots of a selection, as a set
Members(selected) == {selected[i] : i \in 1..Len(selected)}

\* C12 (as claimed): after handleSlotSelect has been applied to a slot, applying
\* it to the same slot again gives back the selection it started from, order
\* included.
C12_ToggleTwiceRestores ==
  [][\A slot \in PickSlots :
       handleSlotSelect(formatSlot(slot)) =>
         toggleSlot(selectedSlots', formatSlot(slot)) = selectedSlots]_vars

\* C12 (amended): the second application gives back a selection with the same
\* members; the order is the original one when the slot was not selected or
\* was the last selected, and otherwise the slot has moved to the end.
C12_ToggleTwiceSameMembers ==
  [][\A slot \in PickSlots :
       handleSlotSelect(formatSlot(slot)) =>
         LET f == formatSlot(slot)
             n == Len(selectedSlots)
             back == toggleSlot(selectedSlots', f)
         IN /\ Members(back) = Members(selectedSlots)
            /\ Len(back) = n
            /\ DistinctIds(back)
            /\ (f \notin Members(selectedSlots) \/ selectedSlots[n] = f) => back = selectedSlots
            /\ (f \in Members(selectedSlots) /\ selectedSlots[n] # f) =>
                 /\ back # selectedSlots
                 /\ back = Append(SelectSeq(selectedSlots, LAMBDA x : x.id # f.id), f)]_vars

\* C12 witness: two or more slots are selected and toggling the first one
\* twice moves it behind the others.
C12_Witness ==
  /\ Len(selectedSlots) >= 2
  /\ LET f == selectedSlots[1]
         back == toggleSlot(toggleSlot(selectedSlots, f), f)
     IN /\ back # selectedSlots
        /\ back[Len(back)] = f
        /\ Members(back) = Members(selectedSlots)

\* C13: a submit that passes validation hands exactly one CallRequest to
\* placement; it carries the form's phoneNumber, inviteeName, occasion and
\* duration, voice 'josh', and one {start, end} record per selected slot, in
\* selection order, holding the raw start and end the slot was loaded with.
C13_CallRequestContents ==
  [][(handleSubmit /\ FailingFields = {}) =>
        /\ Len(placeInflight') = Len(placeInflight) + 1
        /\ LET req == placeInflight'[Len(placeInflight')] IN
             /\ DOMAIN req = {"phoneNumber", "inviteeName", "occasion", "duration", "availabilities", "voice"}
             /\ req.phoneNumber = phoneNumber
             /\ req.inviteeName = inviteeName
             /\ req.occasion = occasion
             /\ req.duration = duration
             /\ req.voice = "josh"
             /\ Len(req.availabilities) = Len(selectedSlots)
             /\ \A i \in 1..Len(selectedSlots) :
                  /\ DOMAIN req.availabilities[i] = {"start", "end"}
                  /\ req.availabilities[i].start = selectedSlots[i].start
                  /\ req.availabilities[i].end = selectedSlots[i].end
                  /\ req.availabilities[i] \in AllSlots]_vars

\* C13 witness: a request is in flight whose availabilities are two slots in
\* selection order (the later slot was selected first), the selection still held.
C13_Witness ==
  /\ submitting
  /\ Len(placeInflight) = 1
  /\ Len(selectedSlots) = 2
  /\ selectedSlots[1].start = "T2"
  /\ placeInflight[1].availabilities = <<[start |-> "T2", end |-> "T3"], [start |-> "T1", end |-> "T2"]>>

\* C14: a resolved placement empties the selection, sets the success indicator
\* and starts the 3-second timer that clears it (the success effect depends on
\* [success], so it starts a timer only in a step that changes success from
\* false to true); a rejected placement leaves the selection, phone number,
\* name, occasion, duration and success indicator as they were; both reset
\* submitting; the timer clears the indicator when it fires.
C14_PlacementOutcome ==
  [][/\ (\E response \in PlaceResponses : PlaceCallOk(response)) =>
          /\ selectedSlots' = <<>>
          /\ success'
          /\ ~success /\ successTimer'
          /\ ~submitting'
     /\ PlaceCallFail =>
          /\ <<selectedSlots, phoneNumber, inviteeName, occasion, duration>>' = <<selectedSlots, phoneNumber, inviteeName, occasion, duration>>
          /\ success' = success
          /\ ~submitting'
     /\ SuccessTimeout => ~success' /\ ~successTimer'
     /\ success' <=> successTimer']_vars

(* ====================== properties of phone validation ================== *)
\* the pattern of the specification: an optional leading '+', a first digit
\* 1-9 and 1 to 14 further digits
PhonePattern(p) ==
  \E k \in {0, 1} :
    /\ k = 1 => (Len(p) >= 1 /\ p[1] = "+")
    /\ LET digits == SubSeq(p, k + 1, Len(p)) IN
         /\ Len(digits) \in 2..15
         /\ digits[1] \in Digits \ {"0"}
         /\ \A i \in 1..Len(digits) : digits[i] \in Digits

\* the phone rule passes on a submit exactly for the inputs in the pattern;
\* an empty input gets the 'required' message, any other rejected input the
\* format message
PhoneRule ==
  /\ ("phoneNumber" \notin DOMAIN errors') <=> PhonePattern(phoneNumber)
  /\ phoneNumber = <<>> => errors'["phoneNumber"] = "Phone number is required"
  /\ (phoneNumber # <<>> /\ ~PhonePattern(phoneNumber)) =>
       errors'["phoneNumber"] = "Enter a valid phone number (e.g., +11234567890)"
  /\ phoneNumber = <<"+", "1", "1", "2", "3", "4", "5", "6", "7", "8", "9", "0">> => "phoneNumber" \notin DOMAIN errors'

\* C15 (as claimed): validation accepts exactly the pattern, and the inputs
\* '123', 'abc' and '+0123' are rejected with the phone error.
C15_PhoneValidation ==
  [][handleSubmit =>
       /\ PhoneRule
       /\ phoneNumber \in {<<"1", "2", "3">>, <<"a", "b", "c">>, <<"+", "0", "1", "2", "3">>} =>
            "phoneNumber" \in DOMAIN errors']_vars

\* C15 (amended): validation accepts exactly the pattern; 'abc' and '+0123'
\* are rejected with the phone error and '123', which is in the pattern, passes.
C15_PhoneValidationPattern ==
  [][handleSubmit =>
       /\ PhoneRule
       /\ phoneNumber \in {<<"a", "b", "c">>, <<"+", "0", "1", "2", "3">>} =>
            "phoneNumber" \in DOMAIN errors'
       /\ phoneNumber = <<"1", "2", "3">> => "phoneNumber" \notin DOMAIN errors']_vars

\* C15 witness: '123' has passed validation and is on its way to placement.
C15_Witness ==
  /\ phoneNumber = <<"1", "2", "3">>
  /\ errors = NoErrors
  /\ submitting
  /\ Len(placeInflight) = 1
  /\ placeInflight[1].phoneNumber = <<"1", "2", "3">>

(* ======================= properties of name validation ================== *)
\* C16: a submit with an invitee name that is empty or made of whitespace only
\* records the inviteeName error and issues no placement request.
C16_BlankNameRejected ==
  [][(handleSubmit /\ inviteeName \in {"", " "}) =>
        /\ "inviteeName" \in DOMAIN errors'
        /\ placeInflight' = placeInflight]_vars

(* ================= properties of the snapshot's updates ================= *)
\* C20: a push-derived update keeps every field of the previous snapshot that
\* the normalized record does not carry and gives every field it carries the
\* new value; a poll-derived update leaves exactly the response; a push event
\* whose call_id differs from the current callId issues no request and changes
\* neither the snapshot nor the flags.
C20_MergeAndReplace ==
  [][/\ \A r \in inflight, mcpData \in McpDatas :
          (Live(r) /\ McpDetailsOk(r, mcpData)) =>
             /\ \A f \in DOMAIN callData \ {"status", "duration_seconds", "call_id", "credits_used", "transcript", "events"} :
                  f \in DOMAIN callData' /\ callData'[f] = callData[f]
             /\ callData'.status = mcpData.status
             /\ callData'.duration_seconds = mcpData.duration
             /\ callData'.call_id = mcpData.call_id
             /\ callData'.credits_used = mcpData.credits
             /\ callData'.transcript = <<>>
             /\ Len(callData'.events) <= 1
     /\ \A r \in inflight, data \in PollDatas :
          (Live(r) /\ (HookFetchOk(r, data) \/ CompFetchOk(r, data))) =>
             /\ callData' = data
             /\ DOMAIN callData' = {"status", "callData", "duration_seconds"}
     /\ \A l \in listeners, e \in CallIds \cup {NoCall} :
          (mounted /\ McpEvent(l, e) /\ e # callId) =>
             UNCHANGED <<callData, loading, error, inflight, issued>>]_vars

\* C21: every resolved poll request of the mounted instance leaves the
\* snapshot equal to its response, whatever was applied before: responses are
\* applied in arrival order, so the response of an earlier request that
\* arrives after that of a later one overwrites it.
C21_ArrivalOrderWins ==
  [][\A r \in inflight, data \in PollDatas :
       (/\ Live(r)
        /\ r.kind \in {"initial", "tick"}
        /\ HookFetchOk(r, data) \/ CompFetchOk(r, data)) =>
          /\ callData' = data
          /\ writer' = r.kind]_vars

\* C21 witness: within one effect run the initial fetch and a tick overlapped,
\* the tick's terminal response was applied first, and the snapshot now holds
\* the initial fetch's older, non-terminal response.
C21_Witness ==
  /\ mounted
  /\ gen = 1
  /\ cleanup.gen = gen
  /\ issued = 2
  /\ inflight = {}
  /\ gen \in termGens
  /\ writer = "initial"
  /\ ~IsTerminal(callData.status)
  /\ error = NoError


\* C22: a response to a request issued for a previous callId, or for an
\* instance that has since been unmounted, leaves the snapshot and the error
\* and loading flags as they were.
C22_OnlyCurrentCallWrites ==
  [][\A r \in inflight \ inflight' :
       (~Live(r) \/ r.cid # callId) =>
         UNCHANGED <<callData, error, loading>>]_vars

====
